---------------------------- MODULE Spec2Model ----------------------------
(***************************************************************************)
(* Model of the two image maintenance scripts of the repository:           *)
(*   scripts/audit-images.py     (classification and --clean archiving)    *)
(*   scripts/optimize-images.py  (per-file recompression, batch loop)      *)
(* Python floats are IEEE-754 binary64; the expressions of the optimizer   *)
(* that use them (2400 / max(w, h), int(w * ratio), int(size * 0.65)) are  *)
(* computed here exactly, with round-to-nearest-even, on binary numerals    *)
(* kept as sequences of bits or of 15-bit limbs (least significant first).  *)
(***************************************************************************)
EXTENDS Integers, Sequences, FiniteSets, TLC

VARIABLES
    \* ---- optimize-images.py, one run of main()
    opc,            \* "start", "loop", "done", "nofiles", "crashed" (uncaught exception)
    args,           \* args.files: the paths given on the command line
    dry_run,        \* args.dry_run
    enc,            \* the encoders' output sizes at the configured qualities
    fs,             \* the image directory: path -> file
    fs0,            \* the image directory when the run started
    fs_prev,        \* the image directory when the last iteration started
    files,          \* main's list of files
    idx,            \* position of the loop over files
    results,        \* main's results
    total_original, total_new, total_webp,
    unreleased,     \* per processed file, the image handles never closed
    \* ---- audit-images.py, runs of main() on a changing images/ directory
    apc,            \* the last step: "idle", "noroot", "crashed", "reported", "cleaned"
    rootExists,     \* ROOT_IMAGES.exists()
    root,           \* images/: name -> content of the file (0: no such file)
    archiveExists,  \* images/_archive is a directory
    archive,        \* images/_archive/: name -> content (0: no such file)
    publicDir,      \* the names in public/images/
    html,           \* the text of public/index.html (<<>> when missing)
    has_public_copy, referenced_but_missing, unreferenced,
    moved,          \* the locals of main() when the last step was a run
    preRoot, preArchive,  \* images/ and images/_archive/ when the last step started
    nextContent,    \* the content of the next file added to images/
    \* ---- the resize step of optimize_image, as a function of (w, h)
    rpc,            \* "in" before the step, "out" after it
    rw, rh,         \* img.size before the step
    rnw, rnh        \* img.size after the step

optVars == <<opc, args, dry_run, enc, fs, fs0, fs_prev, files, idx, results,
             total_original, total_new, total_webp, unreleased>>
auditVars == <<apc, rootExists, root, archiveExists, archive, publicDir, html,
               has_public_copy, referenced_but_missing, unreferenced, moved,
               preRoot, preArchive, nextContent>>
resizeVars == <<rpc, rw, rh, rnw, rnh>>
vars == <<optVars, auditVars, resizeVars>>

\* the values of a tool's variables while another tool is the one running
optIdle ==
    /\ opc = "off"
    /\ args = <<>>
    /\ dry_run = FALSE
    /\ enc = <<>>
    /\ fs = <<>>
    /\ fs0 = <<>>
    /\ fs_prev = <<>>
    /\ files = <<>>
    /\ idx = 0
    /\ results = <<>>
    /\ total_original = 0
    /\ total_new = 0
    /\ total_webp = 0
    /\ unreleased = <<>>

auditIdle ==
    /\ apc = "off"
    /\ rootExists = FALSE
    /\ root = <<>>
    /\ archiveExists = FALSE
    /\ archive = <<>>
    /\ publicDir = {}
    /\ html = <<>>
    /\ has_public_copy = {}
    /\ referenced_but_missing = {}
    /\ unreferenced = {}
    /\ moved = 0
    /\ preRoot = <<>>
    /\ preArchive = <<>>
    /\ nextContent = 0

resizeIdle ==
    /\ rpc = "off"
    /\ rw = 0
    /\ rh = 0
    /\ rnw = 0
    /\ rnh = 0

(***************************************************************************)
(* Binary numerals and binary64 arithmetic                                 *)
(***************************************************************************)
MANT_BITS == 53
LIMB_BITS == 15
LIMB == 2 ^ LIMB_BITS
QUOT_LIMBS == 5

Max(a, b) == IF a >= b THEN a ELSE b

Zeros(k) == [i \in 1..k |-> 0]

Reverse(s) == [i \in 1..Len(s) |-> s[Len(s) + 1 - i]]

\* the position of the most significant 1 of a numeral (0 for zero)
RECURSIVE TopBit(_, _)
TopBit(b, i) == IF i = 0 THEN 0 ELSE IF b[i] = 1 THEN i ELSE TopBit(b, i - 1)

BitLen(b) == TopBit(b, Len(b))

\* drop the zero bits at the most significant end
Normalize(b) == SubSeq(b, 1, BitLen(b))

\* a numeral as limbs of LIMB_BITS bits (least significant limb first), and back
BitAt(b, i) == IF i <= Len(b) THEN b[i] ELSE 0

RECURSIVE LimbAt(_, _, _)
LimbAt(b, k, j) ==
    IF j = LIMB_BITS THEN 0
    ELSE BitAt(b, LIMB_BITS * (k - 1) + j + 1) + 2 * LimbAt(b, k, j + 1)

BitsToLimbs(b) ==
    [k \in 1..((Len(b) + LIMB_BITS - 1) \div LIMB_BITS) |-> LimbAt(b, k, 0)]

LimbsToBits(l) ==
    IF \A k \in 1..Len(l) : l[k] = 0 THEN <<>> ELSE
    Normalize([i \in 1..(LIMB_BITS * Len(l)) |->
        (l[((i - 1) \div LIMB_BITS) + 1] \div (2 ^ ((i - 1) % LIMB_BITS))) % 2])

\* naturals below LIMB * LIMB
NatToLimbs(n) == IF n < LIMB THEN <<n>> ELSE <<n % LIMB, n \div LIMB>>

LimbsToNat(l) ==
    IF Len(l) = 0 THEN 0
    ELSE IF Len(l) = 1 THEN l[1]
    ELSE l[1] + LIMB * l[2]

\* the position of the least significant 0 of a numeral (Len + 1 for none)
RECURSIVE LowZero(_, _)
LowZero(b, i) == IF i > Len(b) THEN i ELSE IF b[i] = 0 THEN i ELSE LowZero(b, i + 1)

\* b + 1
IncBits(b) ==
    LET j == LowZero(b, 1)
    IN  [i \in 1..Max(j, Len(b)) |-> IF i < j THEN 0 ELSE IF i = j THEN 1 ELSE b[i]]

\* the exact product l * n + carry, on limbs, for n < 2 * LIMB
RECURSIVE MulLimbs(_, _, _)
MulLimbs(l, n, carry) ==
    IF l = <<>> THEN NatToLimbs(carry)
    ELSE LET t == Head(l) * n + carry
         IN  <<t % LIMB>> \o MulLimbs(Tail(l), n, t \div LIMB)

\* schoolbook division of the limbs num (most significant first) by d < 2 * LIMB
RECURSIVE LongDiv(_, _, _, _)
LongDiv(num, d, rem, q) ==
    IF num = <<>> THEN [q |-> q, r |-> rem]
    ELSE LET t == LIMB * rem + Head(num)
         IN  LongDiv(Tail(num), d, t % d, <<t \div d>> \o q)

\* The binary64 nearest to (b + f) * 2^e, where b is a numeral and 0 <= f < 1
\* is known only as zero (sticky = FALSE) or not zero: round to nearest, ties
\* to even, on MANT_BITS significant bits.  The result is [m, e], value m * 2^e.
RoundBits(b, e, sticky) ==
    LET L == Len(b)
        s == L - MANT_BITS
    IN  IF s <= 0 THEN [m |-> b, e |-> e]
        ELSE LET kept == SubSeq(b, s + 1, L)
                 half == b[s]
                 rest == sticky \/ \E i \in 1..(s - 1) : b[i] = 1
                 up   == half = 1 /\ (rest \/ kept[1] = 1)
             IN  [m |-> IF up THEN IncBits(kept) ELSE kept, e |-> e + s]

\* float(a) / float(d) for naturals 0 < a < LIMB * LIMB, 0 < d < 2 * LIMB
FlDiv(a, d) ==
    LET num == Reverse(NatToLimbs(a)) \o Zeros(QUOT_LIMBS)
        qr  == LongDiv(num, d, 0, <<>>)
    IN  RoundBits(LimbsToBits(qr.q), 0 - LIMB_BITS * QUOT_LIMBS, qr.r # 0)

\* float(n) * x for a natural n < 2 * LIMB and a binary64 x
FlMul(n, x) ==
    RoundBits(LimbsToBits(MulLimbs(BitsToLimbs(x.m), n, 0)), x.e, FALSE)

\* int(x) for a binary64 0 <= x < LIMB * LIMB: truncation
FlInt(x) ==
    IF x.e >= 0 THEN LimbsToNat(BitsToLimbs(x.m)) * (2 ^ x.e)
    ELSE IF 0 - x.e >= Len(x.m) THEN 0
    ELSE LimbsToNat(BitsToLimbs(SubSeq(x.m, 1 - x.e, Len(x.m))))

(***************************************************************************)
(* File names: sequences of characters                                     *)
(***************************************************************************)
UpperCase == <<"A", "B", "C", "D", "E", "F", "G", "H", "I", "J", "K", "L", "M",
               "N", "O", "P", "Q", "R", "S", "T", "U", "V", "W", "X", "Y", "Z">>
LowerCase == <<"a", "b", "c", "d", "e", "f", "g", "h", "i", "j", "k", "l", "m",
               "n", "o", "p", "q", "r", "s", "t", "u", "v", "w", "x", "y", "z">>
\* the characters of the model's names, in code point order
Alphabet == <<".", "/">> \o UpperCase \o <<"_">> \o LowerCase

LowerChar(c) ==
    IF \E i \in 1..Len(UpperCase) : UpperCase[i] = c
    THEN LowerCase[CHOOSE i \in 1..Len(UpperCase) : UpperCase[i] = c]
    ELSE c

\* str.lower()
Lower(name) == [i \in 1..Len(name) |-> LowerChar(name[i])]

\* str.rfind('.'), 1-based; 0 when there is none
LastDot(name) ==
    LET dots == {i \in 1..Len(name) : name[i] = "."}
    IN  IF dots = {} THEN 0 ELSE CHOOSE i \in dots : \A j \in dots : j <= i

\* PurePath.suffix: the last dot and what follows, unless the name starts or
\* ends with that dot
Suffix(name) ==
    LET i == LastDot(name)
    IN  IF 1 < i /\ i < Len(name) THEN SubSeq(name, i, Len(name)) ELSE <<>>

\* PurePath.with_suffix
WithSuffix(name, sfx) == SubSeq(name, 1, Len(name) - Len(Suffix(name))) \o sfx

\* the extensions the scripts test for
SFX_JPG  == <<".", "j", "p", "g">>
SFX_JPEG == <<".", "j", "p", "e", "g">>
SFX_PNG  == <<".", "p", "n", "g">>
SFX_WEBP == <<".", "w", "e", "b", "p">>
SFX_GIF  == <<".", "g", "i", "f">>
SFX_ICO  == <<".", "i", "c", "o">>

Ord(c) == CHOOSE i \in 1..Len(Alphabet) : Alphabet[i] = c

\* str.__lt__
RECURSIVE StrLess(_, _)
StrLess(a, b) ==
    IF b = <<>> THEN FALSE
    ELSE IF a = <<>> THEN TRUE
    ELSE IF Head(a) # Head(b) THEN Ord(Head(a)) < Ord(Head(b))
    ELSE StrLess(Tail(a), Tail(b))

\* sorted(S)
RECURSIVE Sorted(_)
Sorted(S) ==
    IF S = {} THEN <<>>
    ELSE LET least == CHOOSE x \in S : \A y \in S \ {x} : StrLess(x, y)
         IN  <<least>> \o Sorted(S \ {least})

(***************************************************************************)
(* audit-images.py                                                         *)
(***************************************************************************)
\* ---- the names of the model
N_a       == <<"a", ".", "j", "p", "g">>
N_A       == <<"A", ".", "J", "P", "G">>
N_b       == <<"b", ".", "p", "n", "g">>
N_c       == <<"c", ".", "g", "i", "f">>
N_notes   == <<"n", "o", "t", "e", "s", ".", "t", "x", "t">>
N_archive == <<"_", "a", "r", "c", "h", "i", "v", "e">>
P_A       == <<"A", ".", "j", "p", "g">>
P_b       == <<"b", ".", "p", "n", "g">>

Names == {N_a, N_A, N_b, N_c, N_notes}
PublicNames == {P_A, P_b}

IMAGE_SUFFIXES == {SFX_JPG, SFX_JPEG, SFX_PNG, SFX_WEBP, SFX_GIF, SFX_ICO}

\* ---- public/index.html, as text
\* <img src="images/b.png">
HTML_B ==
    <<"<", "i", "m", "g", " ", "s", "r", "c", "=", "\"", "i", "m", "a", "g",
      "e", "s", "/", "b", ".", "p", "n", "g", "\"", ">">>
\* url(images/Desktop/c.gif) 'images/A.JPG' "images/b.png"
HTML_MIX ==
    <<"u", "r", "l", "(", "i", "m", "a", "g", "e", "s", "/", "D", "e", "s",
      "k", "t", "o", "p", "/", "c", ".", "g", "i", "f", ")", " ", "'", "i",
      "m", "a", "g", "e", "s", "/", "A", ".", "J", "P", "G", "'", " ", "\"",
      "i", "m", "a", "g", "e", "s", "/", "b", ".", "p", "n", "g", "\"">>
\* <p>no images/ here</p>
HTML_NONE ==
    <<"<", "p", ">", "n", "o", " ", "i", "m", "a", "g", "e", "s", "/", " ",
      "h", "e", "r", "e", "<", "/", "p", ">">>
HtmlTexts == {HTML_B, HTML_MIX, HTML_NONE}

\* ---- line 48: re.findall(r'images/([^\"\'\)\s]+)', html)
RE_PREFIX == <<"i", "m", "a", "g", "e", "s", "/">>
RE_EXCLUDED == {"\"", "'", ")", " ", "\t", "\n", "\r", "\f"}

\* the pattern matches at i: the prefix, then at least one character of the class
MatchesAt(t, i) ==
    /\ i + Len(RE_PREFIX) <= Len(t)
    /\ SubSeq(t, i, i + Len(RE_PREFIX) - 1) = RE_PREFIX
    /\ t[i + Len(RE_PREFIX)] \notin RE_EXCLUDED

\* the greedy +: the last position of the run of class characters from j on
RECURSIVE RunEnd(_, _)
RunEnd(t, j) ==
    IF j < Len(t) /\ t[j + 1] \notin RE_EXCLUDED THEN RunEnd(t, j + 1) ELSE j

\* the groups of the non-overlapping matches, scanning from i on (as a set)
RECURSIVE FindAll(_, _)
FindAll(t, i) ==
    IF i > Len(t) THEN {}
    ELSE IF MatchesAt(t, i)
    THEN LET e == RunEnd(t, i + Len(RE_PREFIX))
         IN  {SubSeq(t, i + Len(RE_PREFIX), e)} \cup FindAll(t, e + 1)
    ELSE FindAll(t, i + 1)

HtmlRefs == [t \in HtmlTexts |-> FindAll(t, 1)]

\* ---- lines 40-41
RootFiles(dir, hasArchive) ==
    {n \in Names : dir[n] # 0} \cup (IF hasArchive THEN {N_archive} ELSE {})

RootImages(dir, hasArchive) ==
    {f \in RootFiles(dir, hasArchive) : Lower(Suffix(f)) \in IMAGE_SUFFIXES}

\* line 44
PublicImages(pub) == {Lower(f) : f \in pub}

\* the loop with its two tests in the other order
BucketRefsFirst(img, public_images, html_refs) ==
    IF img \in html_refs THEN "referenced_but_missing"
    ELSE IF Lower(img) \in public_images THEN "has_public_copy"
    ELSE "unreferenced"

\* lines 60-69: the list the loop appends img to
Bucket(img, public_images, html_refs) ==
    IF Lower(img) \in public_images THEN "has_public_copy"
    ELSE IF img \in html_refs THEN "referenced_but_missing"
    ELSE "unreferenced"

\* a clean loop that goes through all three lists
CleanListAll(hpc, rbm, unref) == hpc \cup rbm \cup unref

\* line 92: the files the clean loop goes through
CleanList(hpc, rbm, unref) == hpc \cup unref

\* a copy in place of the move: the file stays in images/
ShutilCopy(d, f) ==
    [root |-> d.root,
     archive |-> [d.archive EXCEPT ![f] = d.root[f]]]

\* line 93: shutil.move(images/f, images/_archive/f), on d = [root, archive]
ShutilMove(d, f) ==
    [root |-> [d.root EXCEPT ![f] = 0],
     archive |-> [d.archive EXCEPT ![f] = d.root[f]]]

\* lines 92-94
RECURSIVE MoveAll(_, _)
MoveAll(d, todo) ==
    IF todo = {} THEN d
    ELSE LET f == CHOOSE x \in todo : TRUE
         IN  MoveAll(ShutilMove(d, f), todo \ {f})

MaxNewFiles == 2

NoDir == [n \in Names |-> 0]

\* the files images/ starts with: the notes and any of the other names, each
\* with its own content
InitialRoots ==
    {[n \in Names |-> IF n \in S \cup {N_notes} THEN
                         (CASE n = N_a -> 1 [] n = N_A -> 2 [] n = N_b -> 3
                            [] n = N_c -> 4 [] OTHER -> 5)
                      ELSE 0] : S \in SUBSET (Names \ {N_notes})}
FirstNewContent == Cardinality(Names) + 1

InitAudit ==
    /\ apc = "idle"
    /\ rootExists \in BOOLEAN
    /\ root \in IF rootExists THEN InitialRoots ELSE {NoDir}
    /\ archiveExists = FALSE
    /\ archive = NoDir
    /\ publicDir \in SUBSET PublicNames
    /\ html \in HtmlTexts \cup {<<>>}
    /\ has_public_copy = {}
    /\ referenced_but_missing = {}
    /\ unreferenced = {}
    /\ moved = 0
    /\ preRoot = root
    /\ preArchive = archive
    /\ nextContent = FirstNewContent
    /\ optIdle
    /\ resizeIdle

\* lines 35-37
AuditNoRoot ==
    /\ ~rootExists
    /\ apc' = "noroot"
    /\ preRoot' = root
    /\ preArchive' = archive
    /\ UNCHANGED <<rootExists, root, archiveExists, archive, publicDir, html,
                   has_public_copy, referenced_but_missing, unreferenced, moved,
                   nextContent, optVars, resizeVars>>

\* line 47: read_text raises, there is no public/index.html
AuditCrash ==
    /\ rootExists
    /\ html = <<>>
    /\ apc' = "crashed"
    /\ preRoot' = root
    /\ preArchive' = archive
    /\ UNCHANGED <<rootExists, root, archiveExists, archive, publicDir, html,
                   has_public_copy, referenced_but_missing, unreferenced, moved,
                   nextContent, optVars, resizeVars>>

\* lines 39-69: the three lists of a run
Classified(which) ==
    LET root_images == RootImages(root, archiveExists)
        public_images == PublicImages(publicDir)
        html_refs == HtmlRefs[html]
    IN  {img \in root_images : Bucket(img, public_images, html_refs) = which}

\* main() without --clean
AuditReport ==
    /\ rootExists
    /\ html # <<>>
    /\ has_public_copy' = Classified("has_public_copy")
    /\ referenced_but_missing' = Classified("referenced_but_missing")
    /\ unreferenced' = Classified("unreferenced")
    /\ apc' = "reported"
    /\ preRoot' = root
    /\ preArchive' = archive
    /\ UNCHANGED <<rootExists, root, archiveExists, archive, publicDir, html,
                   moved, nextContent, optVars, resizeVars>>

\* main() with --clean
AuditClean ==
    /\ rootExists
    /\ html # <<>>
    /\ LET hpc == Classified("has_public_copy")
           rbm == Classified("referenced_but_missing")
           unref == Classified("unreferenced")
           todo == CleanList(hpc, rbm, unref)
           d == MoveAll([root |-> root, archive |-> archive], todo)
       IN  /\ has_public_copy' = hpc
           /\ referenced_but_missing' = rbm
           /\ unreferenced' = unref
           /\ root' = d.root
           /\ archive' = d.archive
           /\ moved' = Cardinality(todo)
    /\ archiveExists' = TRUE
    /\ apc' = "cleaned"
    /\ preRoot' = root
    /\ preArchive' = archive
    /\ UNCHANGED <<rootExists, publicDir, html, nextContent, optVars, resizeVars>>

\* the operator puts a new file into images/
AddFile(n) ==
    /\ rootExists
    /\ root[n] = 0
    /\ nextContent < FirstNewContent + MaxNewFiles
    /\ root' = [root EXCEPT ![n] = nextContent]
    /\ nextContent' = nextContent + 1
    /\ apc' = "idle"
    /\ has_public_copy' = {}
    /\ referenced_but_missing' = {}
    /\ unreferenced' = {}
    /\ moved' = 0
    /\ preRoot' = root
    /\ preArchive' = archive
    /\ UNCHANGED <<rootExists, archiveExists, archive, publicDir, html,
                   optVars, resizeVars>>

\* the operator follows the advice of lines 97-98: rm -rf images/_archive/
PurgeArchive ==
    /\ archiveExists
    /\ archiveExists' = FALSE
    /\ archive' = NoDir
    /\ apc' = "idle"
    /\ has_public_copy' = {}
    /\ referenced_but_missing' = {}
    /\ unreferenced' = {}
    /\ moved' = 0
    /\ preRoot' = root
    /\ preArchive' = archive
    /\ UNCHANGED <<rootExists, root, publicDir, html, nextContent,
                   optVars, resizeVars>>

NextAudit ==
    \/ AuditNoRoot
    \/ AuditCrash
    \/ AuditReport
    \/ AuditClean
    \/ \E n \in Names : AddFile(n)
    \/ PurgeArchive

SpecAudit == InitAudit /\ [][NextAudit]_vars

(***************************************************************************)
(* audit-images.py: properties                                             *)
(***************************************************************************)
ImageNames == {n \in Names : Lower(Suffix(n)) \in IMAGE_SUFFIXES}
Served(n) == \E f \in publicDir : Lower(f) = Lower(n)
Referenced(n) == html # <<>> /\ n \in HtmlRefs[html]
Contents(dir) == {dir[n] : n \in Names} \ {0}

\* C1: a file of images/ that is an image, has no served copy (by lowercased
\* name) and is referenced in the HTML (by exact name) is where it was, with the
\* content it had, after every step of every sequence of runs, and its content
\* is not in the archive.
C1_BucketBNeverMoved ==
    \A n \in ImageNames :
        (preRoot[n] # 0 /\ ~Served(n) /\ Referenced(n)) =>
            /\ root[n] = preRoot[n]
            /\ archive[n] # preRoot[n]

\* a --clean run that moved files and left a bucket B file in place
C1_Witness ==
    /\ apc = "cleaned"
    /\ moved > 0
    /\ \E n \in ImageNames :
          /\ preRoot[n] # 0 /\ ~Served(n) /\ Referenced(n)
          /\ root[n] = preRoot[n]
          /\ n \in referenced_but_missing

\* C2: after a run, the three lists are disjoint, cover the image files of
\* images/, and hold each file by the rule: served copy -> has_public_copy;
\* else referenced -> referenced_but_missing; else unreferenced.
C2_Classification ==
    apc \in {"reported", "cleaned"} =>
        LET imgs == {n \in ImageNames : preRoot[n] # 0}
        IN  /\ has_public_copy \cup referenced_but_missing \cup unreferenced = imgs
            /\ has_public_copy \cap referenced_but_missing = {}
            /\ has_public_copy \cap unreferenced = {}
            /\ referenced_but_missing \cap unreferenced = {}
            /\ \A n \in imgs :
                  /\ n \in has_public_copy <=> Served(n)
                  /\ n \in referenced_but_missing <=> (~Served(n) /\ Referenced(n))
                  /\ n \in unreferenced <=> (~Served(n) /\ ~Referenced(n))

\* a run with a file both served and referenced, and files in the other two lists
C2_Witness ==
    /\ apc = "reported"
    /\ \E n \in has_public_copy : Referenced(n)
    /\ referenced_but_missing # {}
    /\ unreferenced # {}

\* C9: when a --clean run completes, every file of has_public_copy and of
\* unreferenced is in the archive under its name and not in images/, moved
\* counts them, and the archive directory exists.
C9_CleanMovesAandC ==
    apc = "cleaned" =>
        /\ \A n \in has_public_copy \cup unreferenced :
              /\ preRoot[n] # 0
              /\ archive[n] = preRoot[n]
              /\ root[n] = 0
        /\ moved = Cardinality(has_public_copy) + Cardinality(unreferenced)
        /\ archiveExists

\* a --clean run with files of both lists, onto an archive that held files
C9_Witness ==
    /\ apc = "cleaned"
    /\ has_public_copy # {}
    /\ unreferenced # {}
    /\ Contents(preArchive) # {}

\* C10: every file (by content) that was in images/ or in the archive before a
\* --clean run is in images/ or in the archive after it.
C10_CleanNeverDestroys ==
    apc = "cleaned" =>
        (Contents(preRoot) \cup Contents(preArchive))
            \subseteq (Contents(root) \cup Contents(archive))

(***************************************************************************)
(* optimize-images.py                                                      *)
(***************************************************************************)
MAX_DIMENSION == 2400

\* lines 74-78: the size of img after "Cap oversized images"
ResizedSize(w, h) ==
    IF Max(w, h) > MAX_DIMENSION
    THEN LET ratio == FlDiv(MAX_DIMENSION, Max(w, h))
         IN  <<FlInt(FlMul(w, ratio)), FlInt(FlMul(h, ratio))>>
    ELSE <<w, h>>

SKIP_IF_SMALLER_THAN == 5 * 1024

\* the float literals of lines 88, 94 and 106
Float065 == FlDiv(65, 100)
Float085 == FlDiv(85, 100)
Float05  == FlDiv(5, 10)

\* ---- the files of the model
F_small   == <<"s", "m", "a", "l", "l", ".", "j", "p", "g">>
F_edge    == <<"e", "d", "g", "e", ".", "p", "n", "g">>
F_big     == <<"b", "i", "g", ".", "J", "P", "G">>
F_pal     == <<"p", "a", "l", ".", "p", "n", "g">>
F_alpha   == <<"a", "l", "p", "h", "a", ".", "j", "p", "e", "g">>
F_corrupt == <<"c", "o", "r", "r", "u", "p", "t", ".", "j", "p", "g">>
F_trunc   == <<"t", "r", "u", "n", "c", ".", "j", "p", "g">>
F_missing == <<"m", "i", "s", "s", "i", "n", "g", ".", "j", "p", "g">>
F_anim    == <<"a", "n", "i", "m", ".", "g", "i", "f">>

ImagePaths == {F_small, F_edge, F_big, F_pal, F_alpha, F_corrupt, F_trunc,
               F_missing, F_anim}
Paths == ImagePaths \cup {WithSuffix(p, SFX_WEBP) : p \in ImagePaths}

NoFile == [exists |-> FALSE, size |-> 0, w |-> 0, h |-> 0, mode |-> "",
           fault |-> "none", gen |-> 0]
File(size, w, h, mode, fault) ==
    [exists |-> TRUE, size |-> size, w |-> w, h |-> h, mode |-> mode,
     fault |-> fault, gen |-> 0]

\* fault: "corrupt" makes Image.open raise, "truncated" makes the decoding
\* raise (Image.open reads the header only; resize, convert and save decode)
Catalog(p) ==
    CASE p = F_small   -> File(SKIP_IF_SMALLER_THAN - 1, 64, 64, "RGB", "corrupt")
      [] p = F_edge    -> File(SKIP_IF_SMALLER_THAN, 800, 600, "RGB", "none")
      [] p = F_big     -> File(40000, 4231, 3000, "RGB", "none")
      [] p = F_pal     -> File(20000, 100, 100, "P", "none")
      [] p = F_alpha   -> File(SKIP_IF_SMALLER_THAN + 1000, 640, 480, "RGBA", "none")
      [] p = F_corrupt -> File(7000, 0, 0, "", "corrupt")
      [] p = F_trunc   -> File(8000, 3000, 2000, "RGB", "truncated")
      [] p = F_anim    -> File(9000, 320, 200, "P", "none")
      [] OTHER         -> NoFile

WebpSibling == File(3000, 800, 600, "RGB", "none")

\* the encoders' output sizes, by format
EncTables ==
    { [JPEG |-> 4000, PNG |-> 6000, WEBP |-> 3500],
      [JPEG |-> 9000, PNG |-> 21000, WEBP |-> 7000] }

\* ---- the body of optimize_image's try block, statement by statement, on
\* m = [fs, stats, img, handles, cur, err]: the directory, the stats dict, the
\* image the local img refers to, the image handles acquired and not closed,
\* the handle img refers to, and the message of the exception raised so far
Raise(m, msg) == [m EXCEPT !.err = msg]

\* ImageFile.load(): decoding the file, on the first use of the pixels
LoadFails(m, p) == m.img.lazy /\ m.fs[p].fault = "truncated"

\* line 71
ImageOpen(m, p) ==
    IF m.fs[p].fault = "corrupt" THEN Raise(m, "cannot identify image file")
    ELSE [m EXCEPT !.img = [w |-> m.fs[p].w, h |-> m.fs[p].h,
                            mode |-> m.fs[p].mode, lazy |-> TRUE],
                   !.handles = {"open"},
                   !.cur = "open"]

\* lines 74-78
CapOversized(m, p) ==
    IF m.err # "None" THEN m
    ELSE IF Max(m.img.w, m.img.h) > MAX_DIMENSION
    THEN IF LoadFails(m, p) THEN Raise(m, "image file is truncated")
         ELSE LET new_size == ResizedSize(m.img.w, m.img.h)
              IN  [m EXCEPT !.img = [w |-> new_size[1], h |-> new_size[2],
                                     mode |-> m.img.mode, lazy |-> FALSE],
                            !.handles = @ \cup {"resize"},
                            !.cur = "resize"]
    ELSE m

\* img = img.convert("RGB")
Convert(m, p) ==
    IF m.err # "None" THEN m
    ELSE IF LoadFails(m, p) THEN Raise(m, "image file is truncated")
    ELSE [m EXCEPT !.img = [w |-> m.img.w, h |-> m.img.h, mode |-> "RGB",
                            lazy |-> FALSE],
                   !.handles = @ \cup {"convert"},
                   !.cur = "convert"]

\* img.save(target, fmt, ...)
Save(m, p, target, fmt, e) ==
    IF m.err # "None" THEN m
    ELSE IF LoadFails(m, p) THEN Raise(m, "image file is truncated")
    ELSE [m EXCEPT !.img.lazy = FALSE,
                   !.fs[target] = [exists |-> TRUE, size |-> e[fmt],
                                   w |-> m.img.w, h |-> m.img.h,
                                   mode |-> m.img.mode, fault |-> "none",
                                   gen |-> @.gen + 1]]

\* lines 81-88
OptimizeJpeg(m, p, dry, e) ==
    IF m.err # "None" THEN m
    ELSE IF ~dry
    THEN LET c  == IF m.img.mode \in {"CMYK", "P", "RGBA"} THEN Convert(m, p) ELSE m
             sv == Save(c, p, p, "JPEG", e)
         IN  IF sv.err # "None" THEN sv
             ELSE [sv EXCEPT !.stats.new_size = sv.fs[p].size]
    ELSE [m EXCEPT !.stats.new_size = FlInt(FlMul(m.stats.original_size, Float065))]

\* the PNG branch without its dry_run test
OptimizePngNoDryRun(m, p, dry, e) ==
    IF m.err # "None" THEN m
    ELSE LET sv == Save(m, p, p, "PNG", e)
         IN  IF sv.err # "None" THEN sv
             ELSE [sv EXCEPT !.stats.new_size = sv.fs[p].size]

\* the PNG branch with the estimate of the JPEG branch
OptimizePngJpegFactor(m, p, dry, e) ==
    IF m.err # "None" THEN m
    ELSE IF ~dry
    THEN LET sv == Save(m, p, p, "PNG", e)
         IN  IF sv.err # "None" THEN sv
             ELSE [sv EXCEPT !.stats.new_size = sv.fs[p].size]
    ELSE [m EXCEPT !.stats.new_size = FlInt(FlMul(m.stats.original_size, Float065))]

\* lines 91-94
OptimizePng(m, p, dry, e) ==
    IF m.err # "None" THEN m
    ELSE IF ~dry
    THEN LET sv == Save(m, p, p, "PNG", e)
         IN  IF sv.err # "None" THEN sv
             ELSE [sv EXCEPT !.stats.new_size = sv.fs[p].size]
    ELSE [m EXCEPT !.stats.new_size = FlInt(FlMul(m.stats.original_size, Float085))]

\* lines 97-106
GenerateWebp(m, p, ext, dry, e) ==
    LET webp_path == WithSuffix(p, SFX_WEBP)
    IN  IF m.err # "None" THEN m
        ELSE IF ~m.fs[webp_path].exists \/ ~dry
        THEN LET c  == IF m.img.mode \in {"CMYK", "P"} THEN Convert(m, p)
                       ELSE IF m.img.mode = "RGBA" /\ ext \in {SFX_JPG, SFX_JPEG}
                       THEN Convert(m, p)
                       ELSE m
                 sv == IF ~dry THEN Save(c, p, webp_path, "WEBP", e) ELSE c
             IN  IF sv.err # "None" THEN sv
                 ELSE [sv EXCEPT !.stats.webp_size =
                          IF ~dry THEN sv.fs[webp_path].size
                          ELSE FlInt(FlMul(m.stats.original_size, Float05))]
        ELSE m

\* line 108
ImageClose(m) ==
    IF m.err # "None" THEN m
    ELSE [m EXCEPT !.handles = @ \ {m.cur}]

\* the test of line 66 with <= for <
TooSmallOrEqual(original_size) == original_size <= SKIP_IF_SMALLER_THAN

\* line 66
TooSmall(original_size) == original_size < SKIP_IF_SMALLER_THAN

\* line 55 (and 39): os.path.getsize raises for a path that names no file
GetSizeRaises(dir, p) == ~dir[p].exists

\* lines 51-113.  raised: an exception left the function; unreleased: the image
\* handles acquired and not closed when the function returned
OptimizeImage(dir, p, dry, e) ==
    IF GetSizeRaises(dir, p)
    THEN [raised |-> TRUE, stats |-> <<>>, fs |-> dir, unreleased |-> {}]
    ELSE
    LET original_size == dir[p].size
        ext == Lower(Suffix(p))
        stats == [file |-> p, original_size |-> original_size,
                  new_size |-> original_size, webp_size |-> 0,
                  skipped |-> FALSE, error |-> "None"]
    IN  IF TooSmall(original_size)
        THEN [raised |-> FALSE, stats |-> [stats EXCEPT !.skipped = TRUE],
              fs |-> dir, unreleased |-> {}]
        ELSE
        LET m0 == [fs |-> dir, stats |-> stats,
                   img |-> [w |-> 0, h |-> 0, mode |-> "", lazy |-> FALSE],
                   handles |-> {}, cur |-> "", err |-> "None"]
            m1 == CapOversized(ImageOpen(m0, p), p)
            m2 == IF ext \in {SFX_JPG, SFX_JPEG} THEN OptimizeJpeg(m1, p, dry, e)
                  ELSE IF ext = SFX_PNG THEN OptimizePng(m1, p, dry, e)
                  ELSE m1
            m3 == ImageClose(GenerateWebp(m2, p, ext, dry, e))
        IN  [raised |-> FALSE, stats |-> [m3.stats EXCEPT !.error = m3.err],
             fs |-> m3.fs, unreleased |-> m3.handles]

\* ---- main()
MaxFiles == 2

RECURSIVE SeqsUpTo(_, _)
SeqsUpTo(S, n) ==
    IF n = 0 THEN {<<>>}
    ELSE LET shorter == SeqsUpTo(S, n - 1)
         IN  shorter \cup {Append(q, x) : q \in shorter, x \in S}

\* the siblings that may be there before the run
WebpBefore == {WithSuffix(p, SFX_WEBP) : p \in {F_small, F_edge, F_pal}}

Directory(present, webps) ==
    [p \in Paths |-> IF p \in present THEN Catalog(p)
                     ELSE IF p \in webps THEN WebpSibling
                     ELSE NoFile]

Directories ==
    {Directory(ImagePaths, W) : W \in SUBSET WebpBefore} \cup {Directory({}, {})}

\* line 127-128: the jpg and png files of IMAGE_DIR, sorted
GlobImages(dir) ==
    Sorted({p \in Paths : dir[p].exists /\
               Lower(Suffix(p)) \in {SFX_JPG, SFX_JPEG, SFX_PNG}})

InitOptimize ==
    /\ opc = "start"
    /\ args \in SeqsUpTo(ImagePaths, MaxFiles)
    /\ dry_run \in BOOLEAN
    /\ enc \in EncTables
    /\ fs \in Directories
    /\ fs0 = fs
    /\ fs_prev = fs
    /\ files = <<>>
    /\ idx = 0
    /\ results = <<>>
    /\ total_original = 0
    /\ total_new = 0
    /\ total_webp = 0
    /\ unreleased = <<>>
    /\ resizeIdle
    /\ auditIdle

\* lines 124-141, with files to process
Start ==
    /\ opc = "start"
    /\ LET fl == IF args # <<>> THEN args ELSE GlobImages(fs)
       IN  /\ fl # <<>>
           /\ files' = fl
    /\ opc' = "loop"
    /\ idx' = 1
    /\ UNCHANGED <<args, dry_run, enc, fs, fs0, fs_prev, results, total_original,
                   total_new, total_webp, unreleased, resizeVars, auditVars>>

\* lines 124-132, with none
NoFiles ==
    /\ opc = "start"
    /\ args = <<>>
    /\ GlobImages(fs) = <<>>
    /\ opc' = "nofiles"
    /\ UNCHANGED <<args, dry_run, enc, fs, fs0, fs_prev, files, idx, results,
                   total_original, total_new, total_webp, unreleased, resizeVars, auditVars>>

\* lines 143-159: one iteration of the loop
ProcessFile ==
    /\ opc = "loop"
    /\ idx <= Len(files)
    /\ ~GetSizeRaises(fs, files[idx])
    /\ LET r == OptimizeImage(fs, files[idx], dry_run, enc)
       IN  /\ results' = Append(results, r.stats)
           /\ total_original' = total_original + r.stats.original_size
           /\ total_new' = total_new + r.stats.new_size
           /\ total_webp' = total_webp + r.stats.webp_size
           /\ fs' = r.fs
           /\ fs_prev' = fs
           /\ unreleased' = Append(unreleased, r.unreleased)
    /\ idx' = idx + 1
    /\ UNCHANGED <<opc, args, dry_run, enc, fs0, files, resizeVars, auditVars>>

\* line 144: an exception leaves optimize_image and, uncaught, main
Abort ==
    /\ opc = "loop"
    /\ idx <= Len(files)
    /\ GetSizeRaises(fs, files[idx])
    /\ opc' = "crashed"
    /\ UNCHANGED <<args, dry_run, enc, fs, fs0, fs_prev, files, idx, results,
                   total_original, total_new, total_webp, unreleased, resizeVars, auditVars>>

\* lines 161-166
Finish ==
    /\ opc = "loop"
    /\ idx > Len(files)
    /\ opc' = "done"
    /\ UNCHANGED <<args, dry_run, enc, fs, fs0, fs_prev, files, idx, results,
                   total_original, total_new, total_webp, unreleased, resizeVars, auditVars>>

NextOptimize == Start \/ NoFiles \/ ProcessFile \/ Abort \/ Finish

SpecOptimize == InitOptimize /\ [][NextOptimize]_vars

(***************************************************************************)
(* optimize-images.py: properties of a run                                 *)
(***************************************************************************)
Processed(r) == ~r.skipped /\ r.error = "None"

\* the file fails when it is processed alone on the directory of the start
FailsAlone(p) ==
    LET r == OptimizeImage(fs0, p, dry_run, enc)
    IN  r.raised \/ r.stats.error # "None"

Without(list, i) == SubSeq(list, 1, i - 1) \o SubSeq(list, i + 1, Len(list))

\* the results of the loop of lines 143-146 over list, to the end or to the
\* first exception that leaves optimize_image
RECURSIVE BatchResults(_, _)
BatchResults(dir, list) ==
    IF list = <<>> THEN <<>>
    ELSE LET r == OptimizeImage(dir, Head(list), dry_run, enc)
         IN  IF r.raised THEN <<>>
             ELSE <<r.stats>> \o BatchResults(r.fs, Tail(list))

\* C3: when the run has ended and exactly one file of the list fails, there is
\* a result for every file, in order; the failing file's carries a non-empty
\* error; the others are the results of the run without the failing file.
C3_OneBadFileNeverAborts ==
    opc \in {"done", "crashed"} =>
        \A i \in 1..Len(files) :
            (/\ FailsAlone(files[i])
             /\ \A j \in (1..Len(files)) \ {i} : ~FailsAlone(files[j])) =>
                /\ Len(results) = Len(files)
                /\ results[i].file = files[i]
                /\ results[i].error \notin {"None", ""}
                /\ Without(results, i) = BatchResults(fs0, Without(files, i))

\* C4: in dry-run mode the directory is, in every state of the run, the
\* directory of the start: no file changed, no WebP sibling created or rewritten.
C4_DryRunWritesNothing ==
    (opc # "off" /\ dry_run) => fs = fs0

\* a finished dry run with a processed file that had no sibling, one that had
\* one, a skipped file and a failing file
C4_Witness ==
    /\ opc = "done"
    /\ dry_run
    /\ \E i \in 1..Len(results) :
          Processed(results[i]) /\ ~fs0[WithSuffix(files[i], SFX_WEBP)].exists
    /\ \E i \in 1..Len(results) :
          Processed(results[i]) /\ fs0[WithSuffix(files[i], SFX_WEBP)].exists
    /\ \E i \in 1..Len(results) : results[i].skipped
    /\ \E i \in 1..Len(results) : results[i].error # "None"

\* C5 as stated: in dry-run mode every processed file of size S has new_size
\* floor(0.65 S) (jpg, jpeg) or floor(0.85 S) (png), and webp_size floor(0.5 S),
\* whether or not a WebP sibling exists.
C5_EstimatesAsStated ==
    (opc # "off" /\ dry_run) =>
        \A i \in 1..Len(results) :
            LET r == results[i]
                S == r.original_size
                ext == Lower(Suffix(files[i]))
            IN  Processed(r) =>
                    /\ ext \in {SFX_JPG, SFX_JPEG} => r.new_size = (65 * S) \div 100
                    /\ ext = SFX_PNG => r.new_size = (85 * S) \div 100
                    /\ r.webp_size = S \div 2

\* C5 amended: the same, with webp_size floor(0.5 S) when the file has no WebP
\* sibling on disk and 0 when it has one.
C5_Estimates ==
    (opc # "off" /\ dry_run) =>
        \A i \in 1..Len(results) :
            LET r == results[i]
                S == r.original_size
                ext == Lower(Suffix(files[i]))
            IN  Processed(r) =>
                    /\ ext \in {SFX_JPG, SFX_JPEG} => r.new_size = (65 * S) \div 100
                    /\ ext = SFX_PNG => r.new_size = (85 * S) \div 100
                    /\ r.webp_size =
                          IF fs0[WithSuffix(files[i], SFX_WEBP)].exists THEN 0
                          ELSE S \div 2

\* a dry run that processed a png with a sibling (no estimate) and a jpg
\* without one (an estimate)
C5_Witness ==
    /\ opc = "done"
    /\ dry_run
    /\ \E i \in 1..Len(results) :
          /\ Processed(results[i])
          /\ Lower(Suffix(files[i])) = SFX_PNG
          /\ fs0[WithSuffix(files[i], SFX_WEBP)].exists
          /\ results[i].webp_size = 0
    /\ \E i \in 1..Len(results) :
          /\ Processed(results[i])
          /\ Lower(Suffix(files[i])) \in {SFX_JPG, SFX_JPEG}
          /\ results[i].webp_size > 0

\* C6: a file is skipped exactly when its size is below 5120 bytes; a skipped
\* file's result has error None, new_size = original_size and webp_size 0, and
\* its iteration leaves the whole directory as it was.
C6_SmallFilesSkipped ==
    /\ \A i \in 1..Len(results) :
          LET r == results[i]
          IN  /\ r.skipped <=> r.original_size < 5120
              /\ r.skipped => /\ r.error = "None"
                              /\ r.new_size = r.original_size
                              /\ r.webp_size = 0
    /\ (opc = "loop" /\ idx > 1 /\ results[idx - 1].skipped) => fs = fs_prev

\* a real run that skipped a file and processed a file of exactly 5120 bytes
C6_Witness ==
    /\ opc = "done"
    /\ ~dry_run
    /\ \E i \in 1..Len(results) : results[i].skipped
    /\ \E i \in 1..Len(results) :
          /\ results[i].original_size = 5120
          /\ Processed(results[i])
          /\ results[i].webp_size > 0

\* C7: optimize_image returns with every image handle it acquired closed.
C7_HandlesReleased ==
    \A i \in 1..Len(unreleased) : unreleased[i] = {}

(***************************************************************************)
(* optimize-images.py: the resize step alone, over a range of image sizes  *)
(***************************************************************************)
Dims == {1, 2, 1200, 2105, 2399, 2400, 2401, 2526, 3000, 4000, 4231, 4800}

InitResize ==
    /\ rpc = "in"
    /\ rw \in Dims
    /\ rh \in Dims
    /\ rnw = 0
    /\ rnh = 0
    /\ optIdle
    /\ auditIdle

ResizeStep ==
    /\ rpc = "in"
    /\ rpc' = "out"
    /\ rnw' = ResizedSize(rw, rh)[1]
    /\ rnh' = ResizedSize(rw, rh)[2]
    /\ UNCHANGED <<rw, rh, optVars, auditVars>>

\* C8: an image within 2400 x 2400 keeps its size; a larger one gets its longer
\* side at 2400 and its shorter side at floor(short * 2400 / long), and no side
\* grows.
C8_ResizeDimensions ==
    rpc = "out" =>
        LET long == Max(rw, rh)
        IN  IF long <= 2400 THEN rnw = rw /\ rnh = rh
            ELSE /\ rnw = (IF rw = long THEN 2400 ELSE (rw * 2400) \div long)
                 /\ rnh = (IF rh = long THEN 2400 ELSE (rh * 2400) \div long)
                 /\ rnw <= rw
                 /\ rnh <= rh

NextResize == ResizeStep

SpecResize == InitResize /\ [][NextResize]_vars
=============================================================================
